---- MODULE Spec2Model ----
(***************************************************************************)
(* Model of the bespoke training logic of deepvoice3_pytorch:              *)
(*   - train.py  __main__ / train / save_checkpoint  (specification Spec)   *)
(*   - train.py  collate_fn, _pad, _pad_2d           (SpecCollate)          *)
(*   - train.py  sequence_mask, MaskedL1Loss.forward (SpecLoss)             *)
(*   - train.py  masks of the spec_loss calls        (SpecCollate)          *)
(*   - train.py  guided_attention(s)                 (SpecAttn)             *)
(*   - lrschedule.py step_learning_rate_decay        (SpecLr)               *)
(* Tensors are finite sequences of small integers; the network, autograd   *)
(* and the optimizer's arithmetic are external and are abstracted to        *)
(* version counters (number of updates applied).                            *)
(***************************************************************************)
EXTENDS Integers, Sequences, FiniteSets, TLC

VARIABLES
    \* ---- training process (train.py __main__, train) ----
    pc,            \* position of the single control thread
    global_step,   \* train.py:49
    global_epoch,  \* train.py:50
    model,         \* model parameters: number of optimizer updates applied to them
    optimizer,     \* [nsteps, lr]: Adam state (updates done) and param_group['lr']
    current_lr,    \* train(): local current_lr (only logged)
    step,          \* train(): enumerate(data_loader) index inside the epoch
    hp,            \* hparams of the running process
    args,          \* command line: checkpoint_path, reset_optimizer
    checkpoints,   \* checkpoint_dir: step number of the file name -> stored record
    \* ---- history of the training process (observation only) ----
    interrupted,   \* a KeyboardInterrupt reached the handler of __main__
    intr,          \* program state when the last interrupt signal arrived
    startEpoch,    \* global_epoch when train() was entered
    saveLog,       \* file name -> program state when save_checkpoint last wrote it
    loadedLog,     \* saveLog of the file this run was started from
    doneSteps,     \* global_steps of the batches of this run that passed line 464
    ckptSteps,     \* global_steps at which line 468 wrote a checkpoint in this run
    stateSteps,    \* global_steps at which line 465 wrote the diagnostic states
    \* ---- collate_fn (train.py:175) ----
    cphase, batch, r, downsample_step, collated,
    spec_masks,    \* train(): the masks and mask sums of the two spec_loss calls
    \* ---- MaskedL1Loss.forward (train.py:161) ----
    lphase, linput, ltarget, llengths, lcall, lout, linput2, ltarget2, lout2,
    \* ---- guided_attentions (train.py:357) ----
    aphase, a_input_lengths, a_target_lengths, a_max_target_len, a_g, soft_mask,
    \* ---- step_learning_rate_decay (lrschedule.py:14) ----
    sphase, s_init_lr, s_anneal_rate, s_anneal_interval, s_global_step, s_lr, s_prev_lr

trainVars == <<pc, global_step, global_epoch, model, optimizer, current_lr, step,
               hp, args, checkpoints, interrupted, intr, startEpoch, saveLog,
               loadedLog, doneSteps, ckptSteps, stateSteps>>
collateVars == <<cphase, batch, r, downsample_step, collated, spec_masks>>
lossVars == <<lphase, linput, ltarget, llengths, lcall, lout, linput2, ltarget2, lout2>>
attnVars == <<aphase, a_input_lengths, a_target_lengths, a_max_target_len, a_g, soft_mask>>
lrVars == <<sphase, s_init_lr, s_anneal_rate, s_anneal_interval, s_global_step, s_lr,
            s_prev_lr>>
vars == <<trainVars, collateVars, lossVars, attnVars, lrVars>>

\* ------------------------------------------------------------------ bounds
NumBatches == 2      \* len(data_loader)
MaxEpochs == 2       \* hparams.nepochs ranges over 0..MaxEpochs
MaxInterval == 2     \* hparams.checkpoint_interval ranges over 1..MaxInterval
MaxStep == 5         \* cap of global_step over all runs
MaxDrift == 1        \* cap of (model updates - global_step) of a restored checkpoint

Max(a, b) == IF a >= b THEN a ELSE b

\* ------------------------------------------------------------ rationals
\* Learning rates are exact fractions [n, d] in lowest terms.
RECURSIVE GCD(_, _)
GCD(a, b) == IF b = 0 THEN a ELSE GCD(b, a % b)
Rat(n, d) == LET g == GCD(n, d) IN [n |-> n \div g, d |-> d \div g]
RatMul(a, b) == Rat(a.n * b.n, a.d * b.d)
RECURSIVE RatPow(_, _)
RatPow(a, k) == IF k = 0 THEN Rat(1, 1) ELSE RatMul(a, RatPow(a, k - 1))

\* ------------------------------------------------------------ lrschedule.py
\* Mutant of step_learning_rate_decay: the quotient is rounded up.
step_learning_rate_decay_ceil(init_lr, gstep, anneal_rate, anneal_interval) ==
    RatMul(init_lr, RatPow(anneal_rate,
                           (gstep + anneal_interval - 1) \div anneal_interval))

\* lrschedule.py:14-17
\* init_lr * anneal_rate ** (global_step // anneal_interval)
step_learning_rate_decay(init_lr, gstep, anneal_rate, anneal_interval) ==
    RatMul(init_lr, RatPow(anneal_rate, gstep \div anneal_interval))

\* ------------------------------------------------------------ configuration
\* hparams.py is not part of the sources: its values are inputs of a run.
\* Scaled stand-ins: initial_learning_rate 1, anneal_rate 1/2 (lrschedule.py:15
\* defaults to 0.98), anneal_interval AnnealInterval (lrschedule.py:16: 30000).
AnnealInterval == 2
initial_learning_rate == Rat(1, 1)
anneal_rate == Rat(1, 2)
LrSchedules == {"None", "step_learning_rate_decay"}
NoCheckpoint == 0 - 1      \* --checkpoint-path not given

\* optim.Adam(..., lr=hparams.initial_learning_rate, ...)     train.py:569
Adam(lr) == [nsteps |-> 0, lr |-> lr]

\* The program state a checkpoint is meant to hold.
Snapshot == [state_dict |-> model, optimizer |-> optimizer,
             global_step |-> global_step, global_epoch |-> global_epoch]

WriteFile(files, path, rec) ==
    [p \in DOMAIN files \cup {path} |-> IF p = path THEN rec ELSE files[p]]

\* train.py:504  the file is named after the global global_step, the record
\* holds the arguments.
save_checkpoint(m, o, s, e) ==
    WriteFile(checkpoints, global_step,
              [state_dict |-> m, optimizer |-> o, global_step |-> s, global_epoch |-> e])

\* Mutant of load_checkpoint: the epoch counter is not restored.
load_checkpoint_no_epoch(ck, reset_optimizer, fresh) ==
    [model |-> ck.state_dict,
     optimizer |-> IF ~reset_optimizer THEN ck.optimizer ELSE fresh,
     global_step |-> ck.global_step,
     global_epoch |-> 0]

\* train.py:575-582  what __main__ takes from a loaded checkpoint
load_checkpoint(ck, reset_optimizer, fresh) ==
    [model |-> ck.state_dict,
     optimizer |-> IF ~reset_optimizer THEN ck.optimizer ELSE fresh,
     global_step |-> ck.global_step,
     global_epoch |-> ck.global_epoch]

\* Mutant of CheckpointDue: the test global_step > 0 is dropped.
CheckpointDue_at_zero == global_step % hp.checkpoint_interval = 0

\* train.py:464
CheckpointDue == global_step > 0 /\ global_step % hp.checkpoint_interval = 0

TrainPcs == {"while", "for", "batch", "check", "save_states", "add_audio",
             "save_states_tail", "save_checkpoint", "update", "incr"}

NoSnapshot == [state_dict |-> 0 - 1, optimizer |-> Adam(initial_learning_rate),
           global_step |-> 0 - 1, global_epoch |-> 0 - 1]

InitTrain ==
    /\ pc = "start"
    /\ global_step = 0
    /\ global_epoch = 0
    /\ model = 0
    /\ optimizer = Adam(initial_learning_rate)
    /\ current_lr = initial_learning_rate
    /\ step = 0
    /\ hp = [nepochs |-> 0, checkpoint_interval |-> 1, lr_schedule |-> "None"]
    /\ args = [checkpoint_path |-> NoCheckpoint, reset_optimizer |-> FALSE]
    /\ checkpoints = [p \in {} |-> Snapshot]
    /\ interrupted = FALSE
    /\ intr = NoSnapshot
    /\ startEpoch = 0
    /\ saveLog = [p \in {} |-> Snapshot]
    /\ loadedLog = NoSnapshot
    /\ doneSteps = {}
    /\ ckptSteps = {}
    /\ stateSteps = {}

\* train.py:534-590  a process starts: globals 0 (lines 49-50), fresh model and
\* optimizer, then the checkpoint of --checkpoint-path, if given, is loaded.
\* The run is started only if it fits under the caps MaxStep and MaxDrift.
\* --checkpoint-dir names a new, empty directory in every run; --checkpoint-path
\* names any file the previous run wrote.
Main ==
    /\ pc \in {"start", "finished"}
    /\ \E ne \in 0..MaxEpochs, ci \in 1..MaxInterval, sch \in LrSchedules,
          path \in {NoCheckpoint} \cup DOMAIN checkpoints, ro \in BOOLEAN :
        LET fresh == Adam(initial_learning_rate)
            st == IF path # NoCheckpoint
                  THEN load_checkpoint(checkpoints[path], ro, fresh)
                  ELSE [model |-> 0, optimizer |-> fresh,
                        global_step |-> 0, global_epoch |-> 0]
        IN  /\ path = NoCheckpoint => ~ro
            /\ st.global_step + NumBatches * Max(ne - st.global_epoch, 0) <= MaxStep
            /\ st.model - st.global_step <= MaxDrift
            /\ hp' = [nepochs |-> ne, checkpoint_interval |-> ci, lr_schedule |-> sch]
            /\ args' = [checkpoint_path |-> path, reset_optimizer |-> ro]
            /\ model' = st.model
            /\ optimizer' = st.optimizer
            /\ global_step' = st.global_step
            /\ global_epoch' = st.global_epoch
            /\ loadedLog' = IF path # NoCheckpoint THEN saveLog[path] ELSE NoSnapshot
    /\ checkpoints' = [p \in {} |-> Snapshot]
    /\ saveLog' = [p \in {} |-> Snapshot]
    /\ pc' = "loaded"
    /\ step' = 0
    /\ current_lr' = initial_learning_rate
    /\ interrupted' = FALSE
    /\ intr' = NoSnapshot
    /\ startEpoch' = 0
    /\ doneSteps' = {}
    /\ ckptSteps' = {}
    /\ stateSteps' = {}
    /\ UNCHANGED <<collateVars, lossVars,
                   attnVars, lrVars>>

\* train.py:593, 366-378  train() is entered; current_lr = init_lr
TrainEnter ==
    /\ pc = "loaded"
    /\ pc' = "while"
    /\ current_lr' = initial_learning_rate
    /\ startEpoch' = global_epoch
    /\ UNCHANGED <<global_step, global_epoch, model, optimizer, step, hp, args,
                   checkpoints, interrupted, intr, saveLog, doneSteps, ckptSteps,
                   stateSteps, loadedLog, collateVars, lossVars,
                   attnVars, lrVars>>

\* Mutant of While: the loop test is <= instead of <.
While_off_by_one ==
    /\ pc = "while"
    /\ IF global_epoch <= hp.nepochs
       THEN pc' = "for" /\ step' = 0
       ELSE pc' = "finished" /\ step' = step
    /\ UNCHANGED <<global_step, global_epoch, model, optimizer, current_lr, hp, args,
                   checkpoints, interrupted, intr, startEpoch, saveLog, doneSteps,
                   ckptSteps, stateSteps, loadedLog, collateVars, lossVars,
                   attnVars, lrVars>>

\* train.py:381  while global_epoch < nepochs; on exit train() returns and
\* __main__ prints "Finished" and exits (lines 604-605)
While ==
    /\ pc = "while"
    /\ IF global_epoch < hp.nepochs
       THEN pc' = "for" /\ step' = 0
       ELSE pc' = "finished" /\ step' = step
    /\ UNCHANGED <<global_step, global_epoch, model, optimizer, current_lr, hp, args,
                   checkpoints, interrupted, intr, startEpoch, saveLog, doneSteps,
                   ckptSteps, stateSteps, loadedLog, collateVars, lossVars,
                   attnVars, lrVars>>

\* Mutant of For: the step counter starts again at the end of an epoch.
For_resets_step ==
    /\ pc = "for"
    /\ IF step < NumBatches
       THEN pc' = "batch" /\ global_epoch' = global_epoch /\ global_step' = global_step
       ELSE pc' = "while" /\ global_epoch' = global_epoch + 1 /\ global_step' = 0
    /\ UNCHANGED <<model, optimizer, current_lr, step, hp, args, checkpoints,
                   interrupted, intr, startEpoch, saveLog, doneSteps, ckptSteps,
                   stateSteps, loadedLog, collateVars, lossVars,
                   attnVars, lrVars>>

\* train.py:383, 497-501  next batch of the loader, or the end of the epoch
For ==
    /\ pc = "for"
    /\ IF step < NumBatches
       THEN pc' = "batch" /\ global_epoch' = global_epoch
       ELSE pc' = "while" /\ global_epoch' = global_epoch + 1
    /\ UNCHANGED <<global_step, model, optimizer, current_lr, step, hp, args, checkpoints,
                   interrupted, intr, startEpoch, saveLog, doneSteps, ckptSteps,
                   stateSteps, loadedLog, collateVars, lossVars,
                   attnVars, lrVars>>

\* train.py:385-462  learning rate schedule, forward pass and losses
Batch ==
    /\ pc = "batch"
    /\ IF hp.lr_schedule # "None"
       THEN LET lr == step_learning_rate_decay(initial_learning_rate, global_step,
                                               anneal_rate, AnnealInterval)
            IN  /\ current_lr' = lr
                /\ optimizer' = [optimizer EXCEPT !.lr = lr]
       ELSE UNCHANGED <<current_lr, optimizer>>
    /\ pc' = "check"
    /\ UNCHANGED <<global_step, global_epoch, model, step, hp, args, checkpoints,
                   interrupted, intr, startEpoch, saveLog, doneSteps, ckptSteps,
                   stateSteps, loadedLog, collateVars, lossVars,
                   attnVars, lrVars>>

\* train.py:464
Check ==
    /\ pc = "check"
    /\ pc' = IF CheckpointDue THEN "save_states" ELSE "update"
    /\ UNCHANGED <<global_step, global_epoch, model, optimizer, current_lr, step, hp, args,
                   checkpoints, interrupted, intr, startEpoch, saveLog, doneSteps,
                   ckptSteps, stateSteps, loadedLog, collateVars, lossVars,
                   attnVars, lrVars>>

\* train.py:250-297  save_states up to the audio summary
SaveStates ==
    /\ pc = "save_states"
    /\ pc' = "add_audio"
    /\ UNCHANGED <<global_step, global_epoch, model, optimizer, current_lr, step, hp, args,
                   checkpoints, interrupted, intr, startEpoch, saveLog, doneSteps,
                   ckptSteps, stateSteps, loadedLog, collateVars, lossVars,
                   attnVars, lrVars>>

\* train.py:298-302  writer.add_audio inside try / bare except
AddAudio ==
    /\ pc = "add_audio"
    /\ pc' = "save_states_tail"
    /\ UNCHANGED <<global_step, global_epoch, model, optimizer, current_lr, step, hp, args,
                   checkpoints, interrupted, intr, startEpoch, saveLog, doneSteps,
                   ckptSteps, stateSteps, loadedLog, collateVars, lossVars,
                   attnVars, lrVars>>

\* train.py:303-313  the wav file and the target images
SaveStatesTail ==
    /\ pc = "save_states_tail"
    /\ pc' = "save_checkpoint"
    /\ stateSteps' = stateSteps \cup {global_step}
    /\ UNCHANGED <<global_step, global_epoch, model, optimizer, current_lr, step, hp, args,
                   checkpoints, interrupted, intr, startEpoch, saveLog, doneSteps,
                   ckptSteps, loadedLog, collateVars, lossVars,
                   attnVars, lrVars>>

\* train.py:468-469
SaveCheckpoint ==
    /\ pc = "save_checkpoint"
    /\ checkpoints' = save_checkpoint(model, optimizer, global_step, global_epoch)
    /\ saveLog' = WriteFile(saveLog, global_step, Snapshot)
    /\ ckptSteps' = ckptSteps \cup {global_step}
    /\ pc' = "update"
    /\ UNCHANGED <<global_step, global_epoch, model, optimizer, current_lr, step, hp, args,
                   interrupted, intr, startEpoch, doneSteps, stateSteps, loadedLog,
                   collateVars, lossVars,
                   attnVars, lrVars>>

\* train.py:471-476  backward, clipping, optimizer.step()
Update ==
    /\ pc = "update"
    /\ model' = model + 1
    /\ optimizer' = [optimizer EXCEPT !.nsteps = @ + 1]
    /\ doneSteps' = doneSteps \cup {global_step}
    /\ pc' = "incr"
    /\ UNCHANGED <<global_step, global_epoch, current_lr, step, hp, args, checkpoints,
                   interrupted, intr, startEpoch, saveLog, ckptSteps, stateSteps,
                   loadedLog, collateVars, lossVars,
                   attnVars, lrVars>>

\* train.py:478-495  logs, global_step += 1; the loader advances
Incr ==
    /\ pc = "incr"
    /\ global_step' = global_step + 1
    /\ step' = step + 1
    /\ pc' = "for"
    /\ UNCHANGED <<global_epoch, model, optimizer, current_lr, hp, args, checkpoints,
                   interrupted, intr, startEpoch, saveLog, doneSteps, ckptSteps,
                   stateSteps, loadedLog, collateVars, lossVars,
                   attnVars, lrVars>>

\* A KeyboardInterrupt arrives while train() runs and unwinds to __main__
\* (train.py:600).
Interrupt ==
    /\ pc \in TrainPcs \ {"add_audio"}
    /\ pc' = "handler"
    /\ interrupted' = TRUE
    /\ intr' = Snapshot
    /\ UNCHANGED <<global_step, global_epoch, model, optimizer, current_lr, step, hp, args,
                   checkpoints, startEpoch, saveLog, doneSteps, ckptSteps, stateSteps,
                   loadedLog, collateVars, lossVars,
                   attnVars, lrVars>>

\* train.py:298-302  a KeyboardInterrupt raised inside writer.add_audio is caught
\* by the bare except and training goes on.
InterruptSwallowed ==
    /\ pc = "add_audio"
    /\ pc' = "save_states_tail"
    /\ intr' = Snapshot
    /\ UNCHANGED <<global_step, global_epoch, model, optimizer, current_lr, step, hp, args,
                   checkpoints, interrupted, startEpoch, saveLog, doneSteps, ckptSteps,
                   stateSteps, loadedLog, collateVars, lossVars,
                   attnVars, lrVars>>

\* Mutant of Handler: the process exits on the interrupt without saving.
Handler_no_save ==
    /\ pc = "handler"
    /\ pc' = "finished"
    /\ UNCHANGED <<global_step, global_epoch, model, optimizer, current_lr, step, hp, args,
                   checkpoints, saveLog, interrupted, intr, startEpoch, doneSteps,
                   ckptSteps, stateSteps, loadedLog, collateVars, lossVars,
                   attnVars, lrVars>>

\* train.py:600-605  except KeyboardInterrupt: save_checkpoint(...); exit
Handler ==
    /\ pc = "handler"
    /\ checkpoints' = save_checkpoint(model, optimizer, global_step, global_epoch)
    /\ saveLog' = WriteFile(saveLog, global_step, Snapshot)
    /\ pc' = "finished"
    /\ UNCHANGED <<global_step, global_epoch, model, optimizer, current_lr, step, hp, args,
                   interrupted, intr, startEpoch, doneSteps, ckptSteps, stateSteps,
                   loadedLog, collateVars, lossVars,
                   attnVars, lrVars>>

TrainStep ==
    \/ TrainEnter \/ While \/ For \/ Batch \/ Check \/ SaveStates \/ AddAudio
    \/ SaveStatesTail \/ SaveCheckpoint \/ Update \/ Incr \/ Handler

NextTrain ==
    \/ Main
    \/ TrainEnter
    \/ While
    \/ For
    \/ Batch
    \/ Check
    \/ SaveStates
    \/ AddAudio
    \/ SaveStatesTail
    \/ SaveCheckpoint
    \/ Update
    \/ Incr
    \/ Interrupt
    \/ InterruptSwallowed
    \/ Handler

\* ================================================================ collate_fn
\* Bounds of the batches handed to collate_fn.
MaxBatch == 2        \* utterances in a batch: 1..MaxBatch
MaxInputLen == 2     \* tokens of an utterance: 1..MaxInputLen
MaxLen == 7          \* frames of an utterance: 1..MaxLen
MaxR == 3            \* hparams.outputs_per_step: 1..MaxR
MaxD == 2            \* hparams.downsample_step: 1..MaxD

Ok(v) == [ok |-> TRUE, v |-> v]
Err == [ok |-> FALSE, v |-> <<>>]

Const(n, c) == [i \in 1..n |-> c]

\* np.zeros(n): a negative dimension raises ValueError
np_zeros(n) == IF n < 0 THEN Err ELSE Ok(Const(n, 0))

\* train.py:58  np.pad(seq, (0, max_len - len(seq)), constant_values=...):
\* a negative pad width raises ValueError
_pad(seq, max_len, constant_values) ==
    IF max_len - Len(seq) < 0 THEN Err
    ELSE Ok(seq \o Const(max_len - Len(seq), constant_values))

\* train.py:63  np.pad(x, [(b_pad, max_len - len(x) - b_pad), (0, 0)]): rows are
\* added before and after, the rows themselves are left alone (a zero row is 0)
_pad_2d(x, max_len, b_pad) ==
    IF b_pad < 0 \/ max_len - Len(x) - b_pad < 0 THEN Err
    ELSE Ok(Const(b_pad, 0) \o x \o Const(max_len - Len(x) - b_pad, 0))

RECURSIVE SeqMax(_)
SeqMax(q) == IF Len(q) = 1 THEN q[1] ELSE Max(q[1], SeqMax(Tail(q)))

\* train.py:186-197  the padded target length
MaxTargetLen(target_lengths, rr, dd) ==
    LET m0 == SeqMax(target_lengths)
        m1 == IF m0 % rr # 0 THEN m0 + (rr - (m0 % rr)) ELSE m0
        m2 == IF m1 % dd # 0 THEN m1 + (dd - (m1 % dd)) ELSE m1
        b_pad == rr
    IN  m2 + b_pad * dd

\* train.py:228  done flags of one utterance: zeros, padded with ones
DoneFlags(target_len, rr, dd, max_decoder_target_len) ==
    LET z == np_zeros(((target_len \div rr) \div dd) - 1)
    IN  IF ~z.ok THEN Err ELSE _pad(z.v, max_decoder_target_len, 1)

\* train.py:175-234  collate_fn: any ValueError aborts the call
collate_fn(b, rr, dd) ==
    LET B == Len(b)
        input_lengths == [i \in 1..B |-> Len(b[i].x)]
        max_input_len == SeqMax(input_lengths)
        target_lengths == [i \in 1..B |-> Len(b[i].mel)]
        max_target_len == MaxTargetLen(target_lengths, rr, dd)
        b_pad == rr
        a == [i \in 1..B |-> _pad(b[i].x, max_input_len, 0)]
        mels == [i \in 1..B |-> _pad_2d(b[i].mel, max_target_len, b_pad)]
        ys == [i \in 1..B |-> _pad_2d(b[i].lin, max_target_len, b_pad)]
        tpos == [i \in 1..B |->
                   _pad([k \in 1..Len(b[i].x) |-> k], max_input_len, 0)]
        max_decoder_target_len == (max_target_len \div rr) \div dd
        fpos == [i \in 1..B |-> [k \in 1..max_decoder_target_len |-> k]]
        done == [i \in 1..B |->
                   DoneFlags(Len(b[i].mel), rr, dd, max_decoder_target_len)]
        ok == \A i \in 1..B :
                 a[i].ok /\ mels[i].ok /\ ys[i].ok /\ tpos[i].ok /\ done[i].ok
        val(f) == IF ok THEN [i \in 1..B |-> f[i].v] ELSE <<>>
    IN  [ok |-> ok,
         x_batch |-> val(a),
         input_lengths |-> input_lengths,
         mel_batch |-> val(mels),
         y_batch |-> val(ys),
         text_positions |-> val(tpos),
         frame_positions |-> IF ok THEN fpos ELSE <<>>,
         done |-> val(done),
         target_lengths |-> target_lengths,
         max_input_len |-> max_input_len,
         max_target_len |-> max_target_len]

\* An utterance record with n tokens and t frames. The mel and the linear
\* spectrogram of an utterance have the same number of frames (the features are
\* computed from the same signal); values are position-coded and non-zero.
Utterance(n, t) ==
    [x |-> [k \in 1..n |-> k],
     mel |-> [k \in 1..t |-> 10 + k],
     lin |-> [k \in 1..t |-> 20 + k]]

Utterances == {Utterance(n, t) : n \in 1..MaxInputLen, t \in 1..MaxLen}

Batches == UNION {[1..B -> Utterances] : B \in 1..MaxBatch}

InitCollateIdle ==
    /\ cphase = "idle" /\ batch = <<>> /\ r = 1 /\ downsample_step = 1
    /\ collated = <<>> /\ spec_masks = <<>>

InitCollate ==
    /\ cphase = "batch"
    /\ batch \in Batches
    /\ r \in 1..MaxR
    /\ downsample_step \in 1..MaxD
    /\ collated = <<>> /\ spec_masks = <<>>

\* The data loader calls collate_fn on the batch (train.py:561-564).
Collate ==
    /\ cphase = "batch"
    /\ collated' = collate_fn(batch, r, downsample_step)
    /\ cphase' = "done"
    /\ UNCHANGED <<batch, r, downsample_step, spec_masks, trainVars, lossVars,
                   attnVars, lrVars>>


\* ====================================================== MaskedL1Loss.forward
MaxT == 2                        \* time steps of the tensors handed to the loss
BatchFeatureDims == {<<2, 1>>, <<1, 2>>}   \* (B, D) of those tensors
Vals == {0, 1}                   \* tensor entries

None == [some |-> FALSE]
Some(v) == [some |-> TRUE, v |-> v]

Abs(a) == IF a < 0 THEN 0 - a ELSE a

RECURSIVE SeqSum(_)
SeqSum(q) == IF Len(q) = 0 THEN 0 ELSE q[1] + SeqSum(Tail(q))

\* Sum of all entries of a (B, T, D) tensor
TensorSum(x) ==
    SeqSum([b \in 1..Len(x) |-> SeqSum([t \in 1..Len(x[b]) |-> SeqSum(x[b][t])])])

\* train.py:142-153  sequence_mask: without max_len the mask is as wide as the
\* longest length; entry (b, t) is 1 iff t < length[b] (t counted from 0)
sequence_mask(sequence_length, max_len) ==
    LET ml == IF ~max_len.some THEN SeqMax(sequence_length) ELSE max_len.v
    IN  [b \in 1..Len(sequence_length) |->
            [t \in 1..ml |-> IF t - 1 < sequence_length[b] THEN 1 ELSE 0]]

\* .unsqueeze(-1): (B, T) -> (B, T, 1)
unsqueeze(m) == [b \in 1..Len(m) |-> [t \in 1..Len(m[b]) |-> <<m[b][t]>>]]

\* mask.expand_as(input): a dimension of size 1 is repeated, any other size must
\* match or the call raises RuntimeError
expand_as(mask, input) ==
    LET T == Len(input[1])
        Tm == Len(mask[1])
        D == Len(input[1][1])
    IN  IF Len(mask) # Len(input) \/ (Tm # T /\ Tm # 1) THEN Err
        ELSE Ok([b \in 1..Len(input) |-> [t \in 1..T |-> [k \in 1..D |->
                    mask[b][IF Tm = 1 THEN 1 ELSE t][1]]]])

NoLoss(e) == [err |-> e, num |-> 0, den |-> 0]
MissingLengthsAndMask == "RuntimeError: Should provide either lengths or mask"

\* train.py:165-172  the mask from the lengths unless one is given, the masked
\* L1 sum and its division by mask_.sum(), kept as the fraction num / den
MaskedLoss(input, target, lengths, mask, max_len) ==
    LET m == IF ~mask.some
             THEN unsqueeze(sequence_mask(lengths.v, max_len))
             ELSE mask.v
        mask_ == expand_as(m, input)
    IN  IF ~mask_.ok THEN NoLoss("RuntimeError: expand")
        ELSE [err |-> "none",
              num |-> TensorSum([b \in 1..Len(input) |->
                         [t \in 1..Len(input[b]) |->
                            [k \in 1..Len(input[b][t]) |->
                               Abs(input[b][t][k] * mask_.v[b][t][k]
                                   - target[b][t][k] * mask_.v[b][t][k])]]]),
              den |-> TensorSum(mask_.v)]

\* Mutant of forward: the guard is "or" instead of "and".
forward_or_guard(input, target, lengths, mask, max_len) ==
    IF ~lengths.some \/ ~mask.some THEN NoLoss(MissingLengthsAndMask)
    ELSE MaskedLoss(input, target, lengths, mask, max_len)

\* train.py:161-172  MaskedL1Loss.forward
forward(input, target, lengths, mask, max_len) ==
    IF ~lengths.some /\ ~mask.some THEN NoLoss(MissingLengthsAndMask)
    ELSE MaskedLoss(input, target, lengths, mask, max_len)

Tensors(B, T, D) == [1..B -> [1..T -> [1..D -> Vals]]]

InitLoss ==
    /\ lphase = "args"
    /\ \E bd \in BatchFeatureDims :
          /\ linput \in Tensors(bd[1], MaxT, bd[2])
          /\ ltarget \in Tensors(bd[1], MaxT, bd[2])
          /\ llengths \in [1..bd[1] -> 1..MaxT]
    /\ lcall = <<>> /\ lout = <<>> /\ linput2 = <<>> /\ ltarget2 = <<>> /\ lout2 = <<>>

\* A call of MaskedL1Loss.forward: with or without lengths, with or without an
\* explicit (B, T, 1) mask (built as train.py:418-420 builds it), and, when only
\* lengths are given, with or without max_len.
Forward ==
    /\ lphase = "args"
    /\ \E useLengths \in BOOLEAN, useMask \in BOOLEAN, useMaxLen \in BOOLEAN :
          /\ useMaxLen => (useLengths /\ ~useMask)
          /\ lcall' = [lengths |-> IF useLengths THEN Some(llengths) ELSE None,
                       mask |-> IF useMask
                                THEN Some(unsqueeze(sequence_mask(llengths, Some(MaxT))))
                                ELSE None,
                       max_len |-> IF useMaxLen THEN Some(MaxT) ELSE None]
          /\ lout' = forward(linput, ltarget, lcall'.lengths, lcall'.mask,
                             lcall'.max_len)
    /\ lphase' = "called"
    /\ UNCHANGED <<linput, ltarget, llengths, linput2, ltarget2, lout2,
                   trainVars, collateVars,
                   attnVars, lrVars>>

\* The same call on a pair that differs from the first in one entry at a time
\* position at or beyond the sequence's length (any two pairs that differ only
\* in the padded region are linked by a chain of such changes).
Perturb ==
    /\ lphase = "called"
    /\ lcall.lengths.some /\ ~lcall.mask.some
    /\ \E inInput \in BOOLEAN, b \in 1..Len(linput), t \in 1..MaxT,
          k \in 1..Len(linput[1][1]), v \in Vals :
          /\ t - 1 >= llengths[b]
          /\ v # (IF inInput THEN linput[b][t][k] ELSE ltarget[b][t][k])
          /\ linput2' = IF inInput THEN [linput EXCEPT ![b][t][k] = v] ELSE linput
          /\ ltarget2' = IF inInput THEN ltarget ELSE [ltarget EXCEPT ![b][t][k] = v]
          /\ lout2' = forward(linput2', ltarget2', lcall.lengths, lcall.mask,
                              lcall.max_len)
    /\ lphase' = "perturbed"
    /\ UNCHANGED <<linput, ltarget, llengths, lcall, lout, trainVars, collateVars,
                   attnVars, lrVars>>

NextLoss ==
    \/ Forward
    \/ Perturb

InitLossIdle ==
    /\ lphase = "idle" /\ linput = <<>> /\ ltarget = <<>> /\ llengths = <<>>
    /\ lcall = <<>> /\ lout = <<>> /\ linput2 = <<>> /\ ltarget2 = <<>> /\ lout2 = <<>>

\* ================================================ masks of the spec losses
\* mel[:, 0::downsample_step, :]                                train.py:398-399
Downsample(x, dd) ==
    [b \in 1..Len(x) |->
        [k \in 1..((Len(x[b]) + dd - 1) \div dd) |-> x[b][(k - 1) * dd + 1]]]

\* x[:, rr:, :]
SliceFrom(x, rr) ==
    [b \in 1..Len(x) |-> [t \in 1..Max(Len(x[b]) - rr, 0) |-> x[b][t + rr]]]

\* A (B, T) batch of frames as a (B, T, 1) tensor
Frames(x) == [b \in 1..Len(x) |-> [t \in 1..Len(x[b]) |-> <<x[b][t]>>]]

\* The network's outputs are external: a tensor of the target's shape
ZerosLike(x) == [b \in 1..Len(x) |-> [t \in 1..Len(x[b]) |-> <<0>>]]

\* train.py:397-426, 436-450  the masks train() builds from a collated batch and
\* the masked L1 terms of the two spec_loss calls (train.py:329). The lengths
\* are a LongTensor, so target_lengths / (r * downsample_step) is the integer
\* quotient.
TrainMasksOf(c, rr, dd) ==
    LET mel == IF dd > 1 THEN Downsample(c.mel_batch, dd) ELSE c.mel_batch
        y == c.y_batch
        decoder_target_mask ==
            unsqueeze(sequence_mask([b \in 1..Len(c.target_lengths) |->
                                        c.target_lengths[b] \div (rr * dd)],
                                    Some(Len(mel[1]))))
        target_mask ==
            IF dd > 1
            THEN unsqueeze(sequence_mask(c.target_lengths, Some(Len(y[1]))))
            ELSE decoder_target_mask
        mel_target == Frames(SliceFrom(mel, rr))
        mel_mask == SliceFrom(decoder_target_mask, rr)
        linear_target == Frames(SliceFrom(y, rr))
        linear_mask == SliceFrom(target_mask, rr)
    IN  [decoder_target_mask |-> decoder_target_mask,
         target_mask |-> target_mask,
         mel_mask |-> mel_mask,
         linear_mask |-> linear_mask,
         mel_l1 |-> forward(ZerosLike(mel_target), mel_target, None,
                            Some(mel_mask), None),
         linear_l1 |-> forward(ZerosLike(linear_target), linear_target, None,
                               Some(linear_mask), None)]

\* One batch of the loop of train() up to the losses.
TrainMasks ==
    /\ cphase = "done"
    /\ collated.ok
    /\ spec_masks' = TrainMasksOf(collated, r, downsample_step)
    /\ cphase' = "masked"
    /\ UNCHANGED <<batch, r, downsample_step, collated, trainVars, lossVars,
                   attnVars, lrVars>>

NextCollate ==
    \/ Collate
    \/ TrainMasks

\* ======================================================== guided_attentions
MaxAttnBatch == 2      \* batch elements: 1..MaxAttnBatch
MaxEncLen == 3         \* encoder length N of an element: 1..MaxEncLen
MaxDecLen == 3         \* decoder length T of an element: 0..MaxDecLen

RatSub(a, b) == Rat(a.n * b.d - b.n * a.d, a.d * b.d)
RatDiv(a, b) == Rat(a.n * b.d, a.d * b.n)
RatNeg(a) == [n |-> 0 - a.n, d |-> a.d]
RatLeq(a, b) == a.n * b.d <= b.n * a.d

\* exp is not a rational function. A float32 cell holding 1 - np.exp(e) is
\* kept as the term [exp |-> e] with e an exact fraction; np.exp is strictly
\* increasing with exp(0) = 1 and 0 < exp(e), so
\*    1 - exp(e) = 0       iff  e = 0,
\*    1 - exp(e) in [0, 1) iff  e <= 0,
\*    1 - exp(e1) <= 1 - exp(e2)  iff  e2 <= e1.
\* Rounding of exp and of the float32 store is outside the model.
OneMinusExp(e) == [exp |-> e]
Zero == OneMinusExp(Rat(0, 1))                  \* a cell of np.zeros
WeightLeq(w1, w2) == RatLeq(w2.exp, w1.exp)
InUnitInterval(w) == RatLeq(w.exp, Rat(0, 1))

\* hparams.guided_attention_sigma; the default g = 0.2 (train.py:357) is 1/5.
Sigmas == {Rat(1, 5), Rat(1, 2)}

\* -(n / N - t / T)**2 / (2 * g * g)                            train.py:352
AttentionExponent(n, N, t, T, gg) ==
    LET diff == RatSub(Rat(n, N), Rat(t, T))
    IN  RatDiv(RatNeg(RatMul(diff, diff)), RatMul(Rat(2, 1), RatMul(gg, gg)))

\* Mutant of guided_attention: the loops run over the padded sizes.
guided_attention_padded(N, max_N, T, max_T, gg) ==
    [n \in 1..max_N |-> [t \in 1..max_T |->
        IF N > 0 /\ T > 0
        THEN OneMinusExp(AttentionExponent(n - 1, N, t - 1, T, gg))
        ELSE Zero]]

\* train.py:347-354  guided_attention: W[n, t] for n < N, t < T, zero elsewhere
\* (cells are indexed from 1 here: cell (n, t) of the code is [n + 1][t + 1])
guided_attention(N, max_N, T, max_T, gg) ==
    [n \in 1..max_N |-> [t \in 1..max_T |->
        IF n - 1 < N /\ t - 1 < T
        THEN OneMinusExp(AttentionExponent(n - 1, N, t - 1, T, gg))
        ELSE Zero]]

\* .T of a (rows, cols) matrix
Transpose(W, rows, cols) == [c \in 1..cols |-> [rw \in 1..rows |-> W[rw][c]]]

\* train.py:357-364  guided_attentions: W[b] is (max_target_len, max_input_len)
guided_attentions(in_lengths, tgt_lengths, max_tgt_len, gg) ==
    LET B == Len(in_lengths)
        max_input_len == SeqMax(in_lengths)
    IN  [b \in 1..B |->
            Transpose(guided_attention(in_lengths[b], max_input_len,
                                       tgt_lengths[b], max_tgt_len, gg),
                      max_input_len, max_tgt_len)]

InitAttnIdle ==
    /\ aphase = "idle" /\ a_input_lengths = <<>> /\ a_target_lengths = <<>>
    /\ a_max_target_len = 0 /\ a_g = Rat(1, 5) /\ soft_mask = <<>>

\* The arguments train.py:456 passes: encoder lengths, decoder lengths and the
\* number of decoder steps of the attention matrix, which is at least every
\* decoder length.
InitAttn ==
    /\ aphase = "args"
    /\ \E B \in 1..MaxAttnBatch :
          /\ a_input_lengths \in [1..B -> 1..MaxEncLen]
          /\ a_target_lengths \in [1..B -> 0..MaxDecLen]
    /\ a_max_target_len \in 1..MaxDecLen
    /\ \A b \in DOMAIN a_target_lengths : a_target_lengths[b] <= a_max_target_len
    /\ a_g \in Sigmas
    /\ soft_mask = <<>>

GuidedAttentions ==
    /\ aphase = "args"
    /\ soft_mask' = guided_attentions(a_input_lengths, a_target_lengths,
                                      a_max_target_len, a_g)
    /\ aphase' = "done"
    /\ UNCHANGED <<a_input_lengths, a_target_lengths, a_max_target_len, a_g,
                   trainVars, collateVars, lossVars, lrVars>>

NextAttn == GuidedAttentions

\* ================================================= step_learning_rate_decay
MaxLrStep == 6             \* global_step: 0..MaxLrStep
MaxAnnealInterval == 3     \* anneal_interval: 1..MaxAnnealInterval
InitLrs == {Rat(1, 1), Rat(1, 2), Rat(3, 1)}
AnnealRates == {Rat(1, 2), Rat(2, 3), Rat(3, 2)}

InitLrIdle ==
    /\ sphase = "idle" /\ s_init_lr = Rat(1, 1) /\ s_anneal_rate = Rat(1, 1)
    /\ s_anneal_interval = 1 /\ s_global_step = 0
    /\ s_lr = Rat(1, 1) /\ s_prev_lr = Rat(1, 1)

InitLr ==
    /\ sphase = "args"
    /\ s_init_lr \in InitLrs
    /\ s_anneal_rate \in AnnealRates
    /\ s_anneal_interval \in 1..MaxAnnealInterval
    /\ s_global_step = 0
    /\ s_lr = s_init_lr /\ s_prev_lr = s_init_lr

\* The schedule is evaluated at the current global_step (train.py:382-385).
StepLearningRateDecay ==
    /\ sphase = "args"
    /\ s_lr' = step_learning_rate_decay(s_init_lr, s_global_step, s_anneal_rate,
                                        s_anneal_interval)
    /\ sphase' = "called"
    /\ UNCHANGED <<s_init_lr, s_anneal_rate, s_anneal_interval, s_global_step,
                   s_prev_lr, trainVars, collateVars, lossVars, attnVars>>

\* global_step += 1 (train.py:494); the value of the last call is remembered.
NextGlobalStep ==
    /\ sphase = "called"
    /\ s_global_step < MaxLrStep
    /\ s_global_step' = s_global_step + 1
    /\ s_prev_lr' = s_lr
    /\ sphase' = "args"
    /\ UNCHANGED <<s_init_lr, s_anneal_rate, s_anneal_interval, s_lr,
                   trainVars, collateVars, lossVars, attnVars>>

NextLr ==
    \/ StepLearningRateDecay
    \/ NextGlobalStep

Init == InitTrain /\ InitCollateIdle /\ InitLossIdle /\ InitAttnIdle /\ InitLrIdle
Next == NextTrain
Spec == Init /\ [][Next]_vars

InitLossSpec == InitTrain /\ InitCollateIdle /\ InitLoss /\ InitAttnIdle /\ InitLrIdle
SpecLoss == InitLossSpec /\ [][NextLoss]_vars

InitCollateSpec == InitTrain /\ InitCollate /\ InitLossIdle /\ InitAttnIdle /\ InitLrIdle
SpecCollate == InitCollateSpec /\ [][NextCollate]_vars

InitAttnSpec == InitTrain /\ InitCollateIdle /\ InitLossIdle /\ InitAttn /\ InitLrIdle
SpecAttn == InitAttnSpec /\ [][NextAttn]_vars

InitLrSpec == InitTrain /\ InitCollateIdle /\ InitLossIdle /\ InitAttnIdle /\ InitLr
SpecLr == InitLrSpec /\ [][NextLr]_vars

\* ------------------------------------------------------------------ claims

\* C2: when an interrupt signal arrived while train() was running, then at
\* process exit a checkpoint file holds exactly the model parameters, optimizer
\* parameters, global_step and global_epoch the program had when the signal
\* arrived (hence the work of every batch completed before it).
C2_InterruptCheckpointed ==
    (pc = "finished" /\ intr # NoSnapshot) =>
        \E p \in DOMAIN checkpoints : checkpoints[p] = intr

\* C2 witness: a run ended by an interrupt that arrived between optimizer.step()
\* and global_step += 1 of its third batch or later.
C2_Witness ==
    /\ pc = "finished" /\ interrupted
    /\ intr.global_step >= 2 /\ intr.state_dict > intr.global_step

\* C3: a batch that went past line 464 wrote the diagnostic states and a
\* checkpoint iff its global_step is positive and a multiple of
\* checkpoint_interval; nothing is written at other steps, and each such
\* checkpoint is in the checkpoint directory under its step number.
C3_PeriodicCheckpoint ==
    /\ \A s \in doneSteps :
         LET due == s > 0 /\ s % hp.checkpoint_interval = 0
         IN  /\ (s \in stateSteps) <=> due
             /\ (s \in ckptSteps) <=> due
             /\ due => s \in DOMAIN checkpoints
    /\ \A s \in ckptSteps \cup stateSteps : s > 0 /\ s % hp.checkpoint_interval = 0

\* C3 witness: an uninterrupted run from step 0 that has processed step 0 without
\* a checkpoint, a positive non-multiple without one and a multiple with one.
C3_Witness ==
    /\ pc = "finished" /\ ~interrupted /\ intr = NoSnapshot
    /\ hp.checkpoint_interval = 2
    /\ {0, 1, 2} \subseteq doneSteps
    /\ 2 \in ckptSteps /\ 1 \notin ckptSteps /\ 0 \notin ckptSteps

\* C4: after __main__ loaded the checkpoint that save_checkpoint wrote at step S
\* and epoch E, global_step = S (the step of the file name), global_epoch = E, the
\* model parameters are the saved ones, and so are the optimizer parameters
\* unless --reset-optimizer is given.
C4_RoundTrip ==
    (pc = "loaded" /\ args.checkpoint_path # NoCheckpoint) =>
        /\ global_step = args.checkpoint_path
        /\ global_step = loadedLog.global_step
        /\ global_epoch = loadedLog.global_epoch
        /\ model = loadedLog.state_dict
        /\ ~args.reset_optimizer => optimizer = loadedLog.optimizer

\* C4 witness: a checkpoint of a later epoch, with updated parameters and a
\* decayed learning rate, has been restored together with its optimizer.
C4_Witness ==
    /\ pc = "loaded" /\ args.checkpoint_path # NoCheckpoint
    /\ ~args.reset_optimizer
    /\ global_step >= 2 /\ global_epoch >= 1 /\ model >= 2
    /\ optimizer.nsteps >= 2 /\ optimizer.lr # initial_learning_rate

\* C5 as claimed: whenever train() returns without interruption,
\* global_epoch = nepochs.
C5_Original ==
    (pc = "finished" /\ ~interrupted) => global_epoch = hp.nepochs

\* A variant of train(): the work left, counted in steps of the control thread
\* (epochs left, batches left in the epoch, position inside the batch).
TrainRank ==
    LET E == Max(hp.nepochs - global_epoch, 0)
        perBatch == 10
        perEpoch == NumBatches * perBatch + 2
        base == (E - 1) * perEpoch + 3
        pos == [q \in TrainPcs |->
                  CASE q = "batch" -> 9 [] q = "check" -> 8 [] q = "save_states" -> 7
                    [] q = "add_audio" -> 6 [] q = "save_states_tail" -> 5
                    [] q = "save_checkpoint" -> 4 [] q = "update" -> 3
                    [] OTHER -> 2]
    IN  CASE pc = "finished" -> 0
          [] pc = "handler" -> 1
          [] pc = "while" -> E * perEpoch + 2
          [] pc = "for" -> base + (NumBatches - step) * perBatch
          [] pc \in TrainPcs \ {"while", "for"} ->
                base + (NumBatches - step - 1) * perBatch + pos[pc]
          [] OTHER -> E * perEpoch + 3

\* C5 as amended: whenever train() returns without interruption, global_epoch is
\* the larger of nepochs and the global_epoch train() was entered with; and
\* train() terminates: while it runs its next step is always possible, and every
\* step makes the variant TrainRank, which is never negative, smaller.
C5_Amended ==
    /\ []((pc = "finished" /\ ~interrupted) =>
            global_epoch = Max(startEpoch, hp.nepochs))
    /\ [](TrainRank >= 0 /\ (TrainRank = 0 <=> pc = "finished"))
    /\ [](pc \in TrainPcs => ENABLED TrainStep)
    /\ [][(pc \in TrainPcs \cup {"handler"}) => (TrainRank' < TrainRank)]_vars

\* C5 witness: an uninterrupted run that was resumed at epoch 1 and went on to
\* nepochs = 2.
C5_Witness ==
    /\ pc = "finished" /\ ~interrupted
    /\ startEpoch = 1 /\ hp.nepochs = 2 /\ global_epoch = 2

\* C10 as claimed: with no scheduler configured, the optimizer's learning rate at
\* every optimizer.step() is init_lr.
C10_ConstantLr ==
    (pc = "update" /\ hp.lr_schedule = "None") =>
        optimizer.lr = initial_learning_rate

\* Frames of the padded matrix that decoder step j (0-based) stands for: as
\* decoder input, the block j of r frames of the downsampled matrix.
StepFramesIn(j) ==
    {t * downsample_step : t \in (j * r)..((j + 1) * r - 1)}
\* As decoder output: step j predicts block j + 1 (train.py:438 compares
\* outputs[:, :-r] with mel[:, r:]).
StepFramesOut(j) ==
    {t * downsample_step : t \in ((j + 1) * r)..((j + 2) * r - 1)}
\* Rows b_pad+1 .. b_pad+len (1-based) of the padded matrix are the real frames;
\* as 0-based indices: b_pad .. b_pad+len-1.
RealIdx(i) == r..(r + Len(batch[i].mel) - 1)
TailIdx(i) == (r + Len(batch[i].mel))..(collated.max_target_len + 2 * r * downsample_step)
DoneAgrees(i, frames(_)) ==
    \A j \in 0..(Len(collated.done[i]) - 1) :
        /\ (frames(j) \cap RealIdx(i) # {}) => collated.done[i][j + 1] = 0
        /\ (frames(j) \subseteq TailIdx(i)) => collated.done[i][j + 1] = 1

\* C1 as claimed: the padded target length, less the leading block
\* b_pad * downsample_step, is a multiple of r * downsample_step.
C1_Divisible ==
    (cphase = "done" /\ collated.ok) =>
        (collated.max_target_len - r * downsample_step) % (r * downsample_step) = 0

\* C6 as claimed: collate_fn completes on every batch of non-empty utterances,
\* every row of a padded tensor has the same length, tokens are followed by 0,
\* and the frames follow b_pad zero rows, unchanged and in order, then zeros.
C6_CollateLossless ==
    cphase = "done" =>
        /\ collated.ok
        /\ \A i \in 1..Len(batch) :
            /\ Len(collated.x_batch[i]) = collated.max_input_len
            /\ Len(collated.mel_batch[i]) = collated.max_target_len
            /\ Len(collated.y_batch[i]) = collated.max_target_len
            /\ \A k \in 1..collated.max_input_len :
                 collated.x_batch[i][k] =
                    IF k <= Len(batch[i].x) THEN batch[i].x[k] ELSE 0
            /\ \A k \in 1..collated.max_target_len :
                 /\ collated.mel_batch[i][k] =
                      IF k > r /\ k <= r + Len(batch[i].mel)
                      THEN batch[i].mel[k - r] ELSE 0
                 /\ collated.y_batch[i][k] =
                      IF k > r /\ k <= r + Len(batch[i].lin)
                      THEN batch[i].lin[k - r] ELSE 0

\* C7 as claimed: when collate_fn completes, every done array has length
\* max_target_len / r / downsample_step, is 0 at each decoder step that stands
\* for real frames and 1 at each step of the padded tail (reading a step either
\* as the decoder's input block or as the block it predicts).
C7_DoneFlags ==
    (cphase = "done" /\ collated.ok) =>
        \A i \in 1..Len(batch) :
            /\ Len(collated.done[i]) =
                 (collated.max_target_len \div r) \div downsample_step
            /\ DoneAgrees(i, StepFramesIn) \/ DoneAgrees(i, StepFramesOut)

\* C8 as claimed: a call with sequence lengths returns the same loss for two
\* pairs that differ only at time positions at or beyond the given lengths.
C8_PaddingIgnored ==
    lphase = "perturbed" => lout2 = lout

\* C9: the call fails with the error "Should provide either lengths or mask"
\* exactly when it is given neither lengths nor a mask; then no loss value is
\* computed.
C9_MissingArguments ==
    lphase \in {"called", "perturbed"} =>
        /\ (lout.err = MissingLengthsAndMask) <=>
              (~lcall.lengths.some /\ ~lcall.mask.some)
        /\ (lout.err = MissingLengthsAndMask) => (lout.num = 0 /\ lout.den = 0)

\* C9 witness: a call without lengths and without mask has failed with the error.
C9_Witness ==
    /\ lphase = "called"
    /\ ~lcall.lengths.some /\ ~lcall.mask.some
    /\ lout.err = MissingLengthsAndMask

\* C11: the guided-attention mask of every batch element, in [T x N]
\* orientation, is 0 at every padded cell (n >= N or t >= T), is 0 at every
\* valid cell on the exact diagonal (n/N = t/T), lies in [0, 1) everywhere, and
\* among valid cells a larger distance |n/N - t/T| never gives a smaller weight.
AttnDistLeq(b1, n1, t1, b2, n2, t2) ==
    LET N1 == a_input_lengths[b1]
        T1 == a_target_lengths[b1]
        N2 == a_input_lengths[b2]
        T2 == a_target_lengths[b2]
    IN  Abs(n1 * T1 - t1 * N1) * (N2 * T2) <= Abs(n2 * T2 - t2 * N2) * (N1 * T1)
AttnValid == {c \in (DOMAIN a_input_lengths) \X (0..(MaxEncLen + 1)) \X (0..(MaxDecLen + 1)) :
                 c[2] < a_input_lengths[c[1]] /\ c[3] < a_target_lengths[c[1]]}
C11_GuidedAttention ==
    aphase = "done" =>
        LET B == Len(a_input_lengths)
            max_N == SeqMax(a_input_lengths)
        IN  /\ Len(soft_mask) = B
            /\ \A b \in 1..B :
                  /\ Len(soft_mask[b]) = a_max_target_len
                  /\ \A t \in 0..(a_max_target_len - 1) :
                        /\ Len(soft_mask[b][t + 1]) = max_N
                        /\ \A n \in 0..(max_N - 1) :
                              LET w == soft_mask[b][t + 1][n + 1]
                                  N == a_input_lengths[b]
                                  T == a_target_lengths[b]
                              IN  /\ InUnitInterval(w)
                                  /\ (n >= N \/ t >= T) => w = Zero
                                  /\ (n < N /\ t < T /\ n * T = t * N) => w = Zero
            /\ \A c1 \in AttnValid, c2 \in AttnValid :
                  AttnDistLeq(c1[1], c1[2], c1[3], c2[1], c2[2], c2[3])
                  => WeightLeq(soft_mask[c1[1]][c1[3] + 1][c1[2] + 1],
                               soft_mask[c2[1]][c2[3] + 1][c2[2] + 1])

\* C11 witness: a mask was computed for an element with N = T >= 2 that is
\* shorter than the padded sizes in both directions, so that it has padded
\* cells, diagonal cells and a non-zero off-diagonal weight.
C11_Witness ==
    /\ aphase = "done"
    /\ \E b \in DOMAIN a_input_lengths :
          /\ a_input_lengths[b] = a_target_lengths[b]
          /\ a_input_lengths[b] >= 2
          /\ a_input_lengths[b] < SeqMax(a_input_lengths)
          /\ a_target_lengths[b] < a_max_target_len
          /\ soft_mask[b][1][2] # Zero
          /\ soft_mask[b][2][2] = Zero

\* C12: step_learning_rate_decay equals init_lr for every step below
\* anneal_interval, keeps its value from one step to the next inside an
\* interval, is multiplied by anneal_rate once at each multiple of
\* anneal_interval, and gives 0.98 for init_lr 1.0, step 30000, rate 0.98,
\* interval 30000.
C12_PiecewiseGeometric ==
    /\ sphase = "called" =>
          /\ s_global_step < s_anneal_interval => s_lr = s_init_lr
          /\ s_global_step > 0 =>
                s_lr = IF s_global_step % s_anneal_interval = 0
                       THEN RatMul(s_prev_lr, s_anneal_rate)
                       ELSE s_prev_lr
    /\ step_learning_rate_decay(Rat(1, 1), 30000, Rat(49, 50), 30000) = Rat(49, 50)

\* C12 witness: the schedule was evaluated at the second multiple of an
\* interval longer than one step and has dropped twice.
C12_Witness ==
    /\ sphase = "called"
    /\ s_anneal_interval > 1
    /\ s_global_step = 2 * s_anneal_interval
    /\ s_lr = RatMul(s_init_lr, RatMul(s_anneal_rate, s_anneal_rate))
    /\ s_lr # s_prev_lr

\* The global_step the run started with: 0, or the step of the loaded file.
StartStep == IF args.checkpoint_path # NoCheckpoint THEN args.checkpoint_path ELSE 0

\* C13: while train() runs, global_step and global_epoch never decrease;
\* global_step changes only by +1 at line 494 of a batch whose optimizer step is
\* done, and every batch that reaches line 494 increments it; it is not reset at
\* the end of an epoch; global_epoch changes only by +1 when the pass over the
\* data loader is complete, and every complete pass increments it. Hence
\* global_step counts the processed batches on top of the starting step.
C13_Counters ==
    /\ [][(pc \in TrainPcs \cup {"loaded", "handler"}) =>
            /\ global_step' >= global_step
            /\ global_epoch' >= global_epoch
            /\ (global_step' # global_step) =>
                  /\ pc = "incr" /\ pc' = "for"
                  /\ global_step' = global_step + 1
                  /\ global_step \in doneSteps
                  /\ global_epoch' = global_epoch
            /\ (pc = "incr" /\ pc' = "for") => global_step' = global_step + 1
            /\ (global_epoch' # global_epoch) =>
                  /\ pc = "for" /\ step = NumBatches
                  /\ global_epoch' = global_epoch + 1
                  /\ global_step' = global_step
            /\ (pc = "for" /\ step = NumBatches /\ pc' = "while") =>
                  global_epoch' = global_epoch + 1]_vars
    /\ []((pc \in TrainPcs \ {"incr"}) =>
            global_step = StartStep + Cardinality(doneSteps))
    /\ []((pc = "finished" /\ ~interrupted) =>
            /\ global_step = StartStep + Cardinality(doneSteps)
            /\ global_step = StartStep + NumBatches * (global_epoch - startEpoch))

\* C13 witness: an uninterrupted run resumed at step 1 that made two full
\* passes over the loader.
C13_Witness ==
    /\ pc = "finished" /\ ~interrupted
    /\ StartStep = 1
    /\ global_epoch = startEpoch + 2
    /\ global_step = StartStep + 2 * NumBatches

\* C14 as claimed: in every checkpoint in the checkpoint directory the stored
\* global_step equals the number of optimizer updates applied to the stored
\* model parameters.
C14_StepMatchesUpdates ==
    \A p \in DOMAIN checkpoints :
        checkpoints[p].global_step = checkpoints[p].state_dict

\* C15 as claimed: for every collated training batch the shifted masks handed
\* to spec_loss (decoder_target_mask[:, r:, :] for mel, target_mask[:, r:, :] for
\* linear) hold at least one valid position: the mask sums that the masked
\* losses divide by are positive.
C15_MaskNotEmpty ==
    cphase = "masked" =>
        /\ spec_masks.mel_l1.err = "none" /\ spec_masks.mel_l1.den > 0
        /\ spec_masks.linear_l1.err = "none" /\ spec_masks.linear_l1.den > 0

====
